---- MODULE Spec2Model ----
(***************************************************************************)
(* Model of burrito_v_0.0.1.py: the rig registry (_RIGS_CACHE, _MARKED_NS, *)
(* _STATUS), the list view with its selection, the marking handlers and    *)
(* the cancellable per-namespace bake loop driven by _on_run_bake, the     *)
(* list filters, the bake range resolution and the muting of broken        *)
(* expressions.                                                            *)
(*                                                                         *)
(* A handler is one action, except the bake run, which is cut where the    *)
(* host can act in between: at the call of the bake function, at the top   *)
(* of each loop iteration (processIdleEvents, the cancel poll) and around  *)
(* the retarget batch() call.                                              *)
(*                                                                         *)
(* Namespaces are the integers 1..NumIds; Python's sorted() on namespaces  *)
(* is ascending order.  The host (Maya scene, retarget service, progress   *)
(* window, dialogs) is the environment: every value read from it is drawn  *)
(* with \E at the point where the code reads it, except the parts of the   *)
(* scene the code reads back later (cameras, time slider, expressions),    *)
(* which are variables.  Strings that the code searches (labels, filter    *)
(* text) are sequences of one-character strings; an emoji is one character *)
(* written as a word in parentheses.                                       *)
(***************************************************************************)
EXTENDS Integers, Sequences, FiniteSets, TLC

\* ---------------------------------------------------------------- bounds
NumIds == 2
NumCams == 2        \* at most this many *_ANIM cameras in the scene
NumExprs == 2       \* at most this many expression nodes in the scene
MaxScene == 1       \* headIn, tailOut, the time slider's ends and the Custom
                    \*   fields hold 0..MaxScene when the operator sets them
MaxPad == 1         \* the Pre/Post fields hold -MaxPad..MaxPad
MaxApiLog == 3      \* direct calls of the expression functions that are logged

Ids == 1..NumIds

\* values of <ns>:M_GlobalSwitch01_CTRL.bind_skeleton_driver as returned by
\* _read_bind_driver: 0, 1, or None when the attribute is missing
BindValues == {"0", "1", "None"}

\* the five status values of _STATUS
StatusValues == {"not", "baked", "skipped", "failed", "canceled"}

TerminalStatus == {"baked", "skipped", "failed", "canceled"}

VARIABLES
    RIGS_CACHE,     \* _RIGS_CACHE: sequence of [namespace, actor_name,
                    \*   bind_skeleton_driver]
    MARKED_NS,      \* _MARKED_NS: set of namespaces marked To Bake
    STATUS,         \* _STATUS: dict namespace -> status (a function on its keys)
    LIST_NS,        \* namespaces of the rows of the list, in row order
                    \*   (_LIST_LABELS mapped through _LABEL2NS)
    selected,       \* namespaces of the selected rows of tsl_rigs
    pc,             \* "idle": no handler running; "confirm_all": _on_run_bake
                    \*   waits in the dialog 'Bake All Rigs?'; "confirm_te":
                    \*   it waits in the dialog 'Delete Time Editor?';
                    \*   "call": _on_run_bake is about
                    \*   to call the bake function; "boundary": bake loop at the
                    \*   top of an iteration; "baking": inside retarget batch()
    skip_baked,     \* _on_run_bake's local skip_baked (cb_skip_baked at launch)
    bake_namespaces,\* _on_run_bake's id list before the Skip-Baked filter
    namespaces,     \* the list handed to bake_selected_actors_in_range_with_progress
    loop_i,         \* the loop's 1-based index i
    isCancelled,    \* the progress window's isCancelled flag
    calls,          \* log of retarget batch() calls of the current run
    result,         \* how the last call of the bake function ended: "none" (no
                    \*   call, or not yet), "empty" (early return), "completed"
                    \*   (loop over, no cancel seen), "canceled" (cancel seen)
    UI,             \* the values of the widgets of _UI that the handlers query
    cameras,        \* the scene's *_ANIM camera transforms in listing order,
                    \*   each with what reading headIn / tailOut gives
    playback,       \* the time slider: <<playbackOptions min, max>>
    time_editor,    \* whether the scene holds Time Editor nodes
    expressions,    \* the scene's expression nodes: node -> expression text
    muted_expr_backup,  \* the global _muted_expr_backup: whether the name is
                    \*   bound, and its items (node -> text)
    raw_range,      \* _on_run_bake's <<start_frame, end_frame>> as computed,
                    \*   before _validate_range (<<>>: none computed yet)
    frame_range,    \* <<start_frame, end_frame>> after _validate_range, handed
                    \*   to the bake function (<<>>: none yet)
    restore_expr,   \* _on_run_bake's local restore_expr (cb_restore at launch)
    muted,          \* _on_run_bake's local muted: the broken expressions that
                    \*   mute_broken_expressions returned
    api_log,        \* the direct calls of mute_broken_expressions /
                    \*   restore_muted_expressions: [fn, raised]
    warned,         \* the expression nodes for which the last run of
                    \*   mute_broken_expressions / restore_muted_expressions
                    \*   gave the warning 'Could not mute / restore'
    status_log,     \* the _status_set calls made since _on_run_bake was last
                    \*   entered, in order: [ns, state]
    bind_on_at_launch   \* the marked namespaces for which the Skip-Baked
                    \*   filter of _on_run_bake read a bind driver of 1

vars == <<RIGS_CACHE, MARKED_NS, STATUS, LIST_NS, selected, pc, skip_baked,
          bake_namespaces, namespaces, loop_i, isCancelled, calls, result,
          UI, cameras, playback, time_editor, expressions, muted_expr_backup,
          raw_range,
          frame_range, restore_expr, muted, api_log,
          warned, status_log, bind_on_at_launch>>

registryVars == <<RIGS_CACHE, MARKED_NS, STATUS, LIST_NS, selected>>
runVars == <<pc, skip_baked, bake_namespaces, namespaces, loop_i, isCancelled,
             calls, result, status_log, bind_on_at_launch>>
\* the widgets, the cameras and the time slider
hostVars == <<UI, cameras, playback, time_editor>>
\* the expression nodes and their backup
exprVars == <<expressions, muted_expr_backup>>
\* what _on_run_bake computes before it calls the bake function
launchVars == <<raw_range, frame_range, restore_expr, muted>>

\* ------------------------------------------------------------- helpers
Range(s) == {s[k] : k \in DOMAIN s}

RECURSIVE sorted_descending(_)
\* sorted with the largest namespace first (sorted(..., reverse=True))
sorted_descending(S) ==
    IF S = {} THEN <<>>
    ELSE LET m == CHOOSE x \in S : \A y \in S : x >= y
         IN <<m>> \o sorted_descending(S \ {m})

RECURSIVE sorted(_)
\* Python sorted(list(S)) for a set of namespaces
sorted(S) ==
    IF S = {} THEN <<>>
    ELSE LET m == CHOOSE x \in S : \A y \in S : x <= y
         IN <<m>> \o sorted(S \ {m})

\* ------------------------------------------------------------- strings
UpperCase == <<"A", "B", "C", "D", "E", "F", "G", "H", "I", "J", "K", "L", "M",
               "N", "O", "P", "Q", "R", "S", "T", "U", "V", "W", "X", "Y", "Z">>
LowerCase == <<"a", "b", "c", "d", "e", "f", "g", "h", "i", "j", "k", "l", "m",
               "n", "o", "p", "q", "r", "s", "t", "u", "v", "w", "x", "y", "z">>

\* str.lower() on one character
lower_char(c) ==
    IF \E k \in DOMAIN UpperCase : UpperCase[k] = c
    THEN LowerCase[CHOOSE k \in DOMAIN UpperCase : UpperCase[k] = c]
    ELSE c

\* str.lower()
lower(str) == [k \in DOMAIN str |-> lower_char(str[k])]

\* Python's 'sub in str' for strings
contains(sub, str) ==
    \E i \in 0..(Len(str) - Len(sub)) :
        \A j \in 1..Len(sub) : str[i + j] = sub[j]

DigitChar == <<"1", "2", "3", "4", "5", "6", "7", "8", "9">>

\* the namespace string of rig n, and the actor name the scene gives with it
\* (the rigs with an odd number have an empty actor name)
NsName(n) == <<"R", DigitChar[n]>>
ActorName(n) == IF n % 2 = 1 THEN <<>> ELSE <<"A", "l">>

\* the texts the operator types into the filter field
FilterTexts == {<<>>, <<"r", "1">>, <<"N", "O", "T">>, <<"(green)">>}

LIST_MARK_ON == "(green)"
LIST_MARK_OFF == "(white)"

STATUS_ICON ==
    [s \in StatusValues |->
        CASE s = "not" -> "(white)"
          [] s = "baked" -> "(green)"
          [] s = "skipped" -> "(yellow)"
          [] s = "failed" -> "(red)"
          [] s = "canceled" -> "(blue)"]

STATUS_LABEL ==
    [s \in StatusValues |->
        CASE s = "not" -> <<"N", "o", "t", " ", "b", "a", "k", "e", "d">>
          [] s = "baked" -> <<"B", "a", "k", "e", "d">>
          [] s = "skipped" -> <<"S", "k", "i", "p", "p", "e", "d">>
          [] s = "failed" -> <<"F", "a", "i", "l", "e", "d">>
          [] s = "canceled" -> <<"C", "a", "n", "c", "e", "l", "e", "d">>]

\* the possible results of list_scene_rigs(): rigs with distinct namespaces,
\* in any order, each with the bind driver value read for it
Rigs ==
    {[namespace |-> n, actor_name |-> ActorName(n), bind_skeleton_driver |-> b] :
        n \in Ids, b \in BindValues}

Inventories ==
    {inv \in UNION {[1..n -> Rigs] : n \in 0..NumIds} :
        \A a, b \in DOMAIN inv : a # b => inv[a].namespace # inv[b].namespace}

\* the possible namespace lists of scene_actors.get_all_actors_in_scene()
NsLists ==
    {l \in UNION {[1..n -> Ids] : n \in 0..NumIds} :
        \A a, b \in DOMAIN l : a # b => l[a] # l[b]}

CacheNs(cache) == {cache[k].namespace : k \in DOMAIN cache}

\* ------------------------------------------------------------ registry
\* _status_get
status_get(st, ns) == IF ns \in DOMAIN st THEN st[ns] ELSE "not"

\* _status_set leaving a 'baked' status as it is
status_set_baked_is_sticky(st, ns, state) ==
    IF ns \in DOMAIN st /\ st[ns] = "baked" THEN st
    ELSE [x \in DOMAIN st \cup {ns} |-> IF x = ns THEN state ELSE st[x]]

\* _status_set
status_set(st, ns, state) ==
    [x \in DOMAIN st \cup {ns} |-> IF x = ns THEN state ELSE st[x]]

\* _status_init_from_bind without the 'if ns not in _STATUS' guard
status_init_overwrites(st, ns, bind_driver) ==
    status_set(st, ns, IF bind_driver = "1" THEN "baked" ELSE "not")

\* _status_init_from_bind testing 'bind_driver != 0' (None seeds 'baked')
status_init_unknown_is_baked(st, ns, bind_driver) ==
    IF ns \notin DOMAIN st
    THEN status_set(st, ns, IF bind_driver # "0" THEN "baked" ELSE "not")
    ELSE st

\* _status_init_from_bind
status_init_from_bind(st, ns, bind_driver) ==
    IF ns \notin DOMAIN st
    THEN status_set(st, ns, IF bind_driver = "1" THEN "baked" ELSE "not")
    ELSE st

RECURSIVE seed_all(_, _, _)
\* the seeding loop of _refresh_rigs_cache over the rigs k..Len(cache)
seed_all(st, cache, k) ==
    IF k > Len(cache) THEN st
    ELSE seed_all(status_init_from_bind(st, cache[k].namespace,
                                        cache[k].bind_skeleton_driver),
                  cache, k + 1)

RECURSIVE set_all(_, _, _, _)
\* for rest in namespaces[k-1:]: _status_set(rest, state)
set_all(st, l, k, state) ==
    IF k > Len(l) THEN st
    ELSE set_all(status_set(st, l[k], state), l, k + 1, state)

\* _rig_pretty_label: '<mark> <ns or ns — actor>    <icon> <status label>'
rig_pretty_label(ns, actor_name, marks, st) ==
    LET mark == IF ns \in marks THEN LIST_MARK_ON ELSE LIST_MARK_OFF
        s    == status_get(st, ns)
        icon == STATUS_ICON[s]
        tag  == STATUS_LABEL[s]
        core == IF actor_name # <<>>
                THEN NsName(ns) \o <<" ", "(em dash)", " ">> \o actor_name
                ELSE NsName(ns)
    IN  <<mark, " ">> \o core \o <<" ", " ", " ", " ", icon, " ">> \o tag

\* _collect_filter_flags with the two check boxes read as off while a filter
\* text is typed
collect_filter_flags_text_clears_boxes(ui) ==
    IF ui.tf_filter # <<>> THEN <<ui.tf_filter, FALSE, FALSE>>
    ELSE <<ui.tf_filter, ui.cb_hide_baked, ui.cb_show_only_marked>>

\* _collect_filter_flags: <<txt, hide_baked, show_only_marked>>
collect_filter_flags(ui) ==
    <<ui.tf_filter, ui.cb_hide_baked, ui.cb_show_only_marked>>

\* the test on the filter text made case-sensitive
row_skipped_case_sensitive(rig, marks, st, flags) ==
    LET ns    == rig.namespace
        label == rig_pretty_label(ns, rig.actor_name, marks, st)
    IN  \/ flags[2] /\ rig.bind_skeleton_driver = "1"
        \/ flags[3] /\ ns \notin marks
        \/ flags[1] # <<>> /\ ~contains(flags[1], label)

\* the three 'continue' tests of _populate_list's loop for one rig
row_skipped(rig, marks, st, flags) ==
    LET ns    == rig.namespace
        label == rig_pretty_label(ns, rig.actor_name, marks, st)
    IN  \/ flags[2] /\ rig.bind_skeleton_driver = "1"
        \/ flags[3] /\ ns \notin marks
        \/ flags[1] # <<>> /\ ~contains(lower(flags[1]), lower(label))

RECURSIVE populate_loop(_, _, _, _, _)
\* _populate_list's loop over the rigs k..Len(cache): the namespaces of the
\* labels appended to _LIST_LABELS
populate_loop(cache, marks, st, flags, k) ==
    IF k > Len(cache) THEN <<>>
    ELSE (IF row_skipped(cache[k], marks, st, flags)
          THEN <<>> ELSE <<cache[k].namespace>>)
         \o populate_loop(cache, marks, st, flags, k + 1)

\* the rows _populate_list builds from the cache under the filter widgets
populate_rows(cache, marks, st, ui) ==
    populate_loop(cache, marks, st, collect_filter_flags(ui), 1)

\* populate_selection keeping every selected namespace, listed or not
populate_selection_keeps_hidden(rows, sel) == sel

\* the selection _populate_list restores: the rows whose namespace was selected
populate_selection(rows, sel) == sel \cap Range(rows)

\* refresh_marks without the intersection with the scene namespaces
refresh_marks_keeps_all(prev_marks, cache) == prev_marks

\* refresh_marks dropping every mark
refresh_marks_cleared(prev_marks, cache) == {}

\* _refresh_rigs_cache: the marks kept after the cache was replaced
refresh_marks(prev_marks, cache) == prev_marks \cap CacheNs(cache)

\* _refresh_rigs_cache: the status dict after seeding the unseen namespaces
refresh_status(st, cache) == seed_all(st, cache, 1)

\* _mark_selected: for ns in ns_list: _MARKED_NS.add(ns)
mark_selected(marks, ns_list) == marks \cup ns_list

\* _unmark_selected emptying the marked set
unmark_selected_clears_all(marks, ns_list) == {}

\* _unmark_selected: for ns in ns_list: _MARKED_NS.discard(ns)
unmark_selected(marks, ns_list) == marks \ ns_list

\* _toggle_selected that only adds
toggle_selected_only_adds(marks, ns_list) == marks \cup ns_list

\* _toggle_selected: discard the marked ones, add the others
toggle_selected(marks, ns_list) == (marks \ ns_list) \cup (ns_list \ marks)

\* _hotkey_toggle_last_selected: labels[-1] is the selected row lowest in the list
last_selected(rows, sel) ==
    LET ks == {k \in DOMAIN rows : rows[k] \in sel}
    IN  rows[CHOOSE k \in ks : \A j \in ks : j <= k]

\* ------------------------------------------------------------- widgets
\* the values the widgets have when open_bake_ui has built them (the camera
\* menus are filled by _ui_refresh_cameras afterwards; 0: the menu is empty)
UIDefaults ==
    [rbg_method |-> 1, om_first |-> 0, om_last |-> 0,
     cb_prepost_enable |-> TRUE, if_pre |-> 1, if_post |-> 1,
     if_start |-> 1, if_end |-> 120,
     cb_fallback |-> TRUE, cb_mute |-> TRUE, cb_restore |-> FALSE,
     cb_timeeditor |-> FALSE,
     tf_filter |-> <<>>, cb_hide_baked |-> FALSE, cb_show_only_marked |-> FALSE]

\* ------------------------------------------------------------- cameras
\* what _read_cam_attr_int gives for an attribute: <<v>>, or <<>> when it
\* raises RuntimeError
CamReads == {<<>>} \cup {<<v>> : v \in 0..MaxScene}

CameraLists ==
    UNION {[1..n -> [headIn : CamReads, tailOut : CamReads]] : n \in 0..NumCams}

\* list_cameras_with_head_tail: the cameras on which both reads succeed
cams_ht(cams) ==
    {c \in DOMAIN cams : cams[c].headIn # <<>> /\ cams[c].tailOut # <<>>}

\* refresh_cameras with ties going to the camera listed last
refresh_cameras_last_tie_wins(cams) ==
    LET ht == cams_ht(cams)
        first == CHOOSE c \in ht : \A d \in ht :
                    \/ cams[c].headIn[1] < cams[d].headIn[1]
                    \/ cams[c].headIn[1] = cams[d].headIn[1] /\ c >= d
        last  == CHOOSE c \in ht : \A d \in ht :
                    \/ cams[c].tailOut[1] > cams[d].tailOut[1]
                    \/ cams[c].tailOut[1] = cams[d].tailOut[1] /\ c >= d
    IN  IF ht # {} THEN <<first, last>>
        ELSE IF Len(cams) > 0 THEN <<1, 1>> ELSE <<0, 0>>

\* _ui_refresh_cameras: the rebuilt menus show their first item (0: no item);
\* with (HT) cameras, First is the first one of least headIn and Last the
\* first one of greatest tailOut
refresh_cameras(cams) ==
    LET ht == cams_ht(cams)
        first == CHOOSE c \in ht : \A d \in ht :
                    \/ cams[c].headIn[1] < cams[d].headIn[1]
                    \/ cams[c].headIn[1] = cams[d].headIn[1] /\ c <= d
        last  == CHOOSE c \in ht : \A d \in ht :
                    \/ cams[c].tailOut[1] > cams[d].tailOut[1]
                    \/ cams[c].tailOut[1] = cams[d].tailOut[1] /\ c <= d
    IN  IF ht # {} THEN <<first, last>>
        ELSE IF Len(cams) > 0 THEN <<1, 1>> ELSE <<0, 0>>

\* _read_cam_attr_int(cam, attr) on the scene's cameras
read_cam_attr_int(cams, cam, attr) ==
    IF cam \in DOMAIN cams THEN cams[cam][attr] ELSE <<>>

\* get_start_frame_from_layout_cam: <<headIn - pre_frame>>, <<>> when it raises
get_start_frame_from_layout_cam(cams, camera, pre_frame) ==
    LET start == read_cam_attr_int(cams, camera, "headIn")
    IN  IF start = <<>> THEN <<>> ELSE <<start[1] - pre_frame>>

\* get_end_frame_from_layout_cam: <<tailOut + post_frame>>, <<>> when it raises
get_end_frame_from_layout_cam(cams, camera, post_frame) ==
    LET end == read_cam_attr_int(cams, camera, "tailOut")
    IN  IF end = <<>> THEN <<>> ELSE <<end[1] + post_frame>>

\* --------------------------------------------------------------- range
\* _on_run_bake: pre, post (0 when Enable Pre/Post Frames is off)
pre_of(ui) == IF ui.cb_prepost_enable THEN ui.if_pre ELSE 0
post_of(ui) == IF ui.cb_prepost_enable THEN ui.if_post ELSE 0

\* min_t - int(pre), max_t + int(post) on the time slider
timeline_range(pb, pre, post) == <<pb[1] - pre, pb[2] + post>>

\* from_cameras with the fallback taken whatever Allow fallback says
from_cameras_always_falls_back(ui, cams, pb) ==
    LET start == get_start_frame_from_layout_cam(cams, ui.om_first, pre_of(ui))
        end   == get_end_frame_from_layout_cam(cams, ui.om_last, post_of(ui))
    IN  IF start # <<>> /\ end # <<>> THEN <<start[1], end[1]>>
        ELSE timeline_range(pb, pre_of(ui), post_of(ui))

\* from_cameras with the fallback replacing only the bound whose read failed
from_cameras_falls_back_per_bound(ui, cams, pb) ==
    LET start == get_start_frame_from_layout_cam(cams, ui.om_first, pre_of(ui))
        end   == get_end_frame_from_layout_cam(cams, ui.om_last, post_of(ui))
        tl    == timeline_range(pb, pre_of(ui), post_of(ui))
    IN  IF start # <<>> /\ end # <<>> THEN <<start[1], end[1]>>
        ELSE IF ~ui.cb_fallback THEN <<>>
        ELSE <<IF start # <<>> THEN start[1] ELSE tl[1],
               IF end # <<>> THEN end[1] ELSE tl[2]>>

\* _on_run_bake, method 1: both reads in one try; when either raises, return
\* (<<>>) without Allow fallback, else take both bounds from the time slider
from_cameras(ui, cams, pb) ==
    LET start == get_start_frame_from_layout_cam(cams, ui.om_first, pre_of(ui))
        end   == get_end_frame_from_layout_cam(cams, ui.om_last, post_of(ui))
    IN  IF start # <<>> /\ end # <<>> THEN <<start[1], end[1]>>
        ELSE IF ~ui.cb_fallback THEN <<>>
        ELSE timeline_range(pb, pre_of(ui), post_of(ui))

\* compute_range with the pads taken from the fields even when disabled
compute_range_pads_always(ui, cams, pb) ==
    IF ui.rbg_method = 1 THEN from_cameras(ui, cams, pb)
    ELSE IF ui.rbg_method = 2
    THEN timeline_range(pb, ui.if_pre, ui.if_post)
    ELSE <<ui.if_start - ui.if_pre, ui.if_end + ui.if_post>>

\* _on_run_bake, 'Compute range': <<start_frame, end_frame>> before
\* _validate_range, or <<>> when the handler returns instead
compute_range(ui, cams, pb) ==
    IF ui.rbg_method = 1 THEN from_cameras(ui, cams, pb)
    ELSE IF ui.rbg_method = 2
    THEN timeline_range(pb, pre_of(ui), post_of(ui))
    ELSE <<ui.if_start - pre_of(ui), ui.if_end + post_of(ui)>>

\* _compute_preview_range as _update_preview_label shows it: the pair as
\* computed (no _validate_range, no fallback), or <<>> when a camera read
\* raises and the label reads 'Preview: set valid cameras or adjust range
\* options'
compute_preview_range(ui, cams, pb) ==
    LET sf == get_start_frame_from_layout_cam(cams, ui.om_first, pre_of(ui))
        ef == get_end_frame_from_layout_cam(cams, ui.om_last, post_of(ui))
    IN  IF ui.rbg_method = 1
        THEN (IF sf # <<>> /\ ef # <<>> THEN <<sf[1], ef[1]>> ELSE <<>>)
        ELSE IF ui.rbg_method = 2
        THEN timeline_range(pb, pre_of(ui), post_of(ui))
        ELSE <<ui.if_start - pre_of(ui), ui.if_end + post_of(ui)>>

\* _validate_range without the swap
validate_range_keeps_order(start_frame, end_frame) == <<start_frame, end_frame>>

\* _validate_range: min(s, e), max(s, e)
validate_range(start_frame, end_frame) ==
    <<IF start_frame <= end_frame THEN start_frame ELSE end_frame,
      IF start_frame <= end_frame THEN end_frame ELSE start_frame>>

\* -------------------------------------------------------- expressions
ExprIds == 1..NumExprs

\* expression texts: the empty script, one whose nodes all exist, and two
\* that refer to a missing node
ExprTexts == {"", "ok", "missing_a", "missing_b"}

Scenes == UNION {[E -> ExprTexts] : E \in SUBSET ExprIds}

\* _list_broken_expressions: the nodes whose text refers to a missing object
list_broken_expressions(exprs) ==
    {ex \in DOMAIN exprs : exprs[ex] \in {"missing_a", "missing_b"}}

\* the empty dict / a dict never bound to the global name
NoBackup == [defined |-> FALSE, items |-> <<>>]
EmptyBackup == [defined |-> TRUE, items |-> <<>>]

\* mute_broken_expressions: the backup it leaves (every broken expression's
\* text, whether or not blanking it then succeeded)
mute_backup(exprs) ==
    [defined |-> TRUE,
     items |-> [ex \in list_broken_expressions(exprs) |-> exprs[ex]]]

\* mute_broken_expressions: the scene after it; ok holds the broken
\* expressions on which cmds.expression(ex, e=True, s='') did not raise
mute_scene(exprs, ok) ==
    [ex \in DOMAIN exprs |->
        IF ex \in list_broken_expressions(exprs) \cap ok THEN "" ELSE exprs[ex]]

\* restore_muted_expressions: the scene after it; ok holds the expressions
\* on which cmds.expression(ex, e=True, s=txt) did not raise
restore_scene(exprs, backup, ok) ==
    [ex \in DOMAIN exprs |->
        IF ex \in DOMAIN backup.items \cap ok THEN backup.items[ex]
        ELSE exprs[ex]]

\* restore_muted_expressions: the existing expressions of the backup on which
\* cmds.expression raised
restore_warned(exprs, backup, ok) ==
    (DOMAIN backup.items \cap DOMAIN exprs) \ ok

\* restore_backup without the final clear()
restore_backup_kept(backup) == backup

\* restore_muted_expressions: _muted_expr_backup.clear()
restore_backup(backup) == EmptyBackup

\* ------------------------------------------------------------- actions
\* the tail of every marking handler: _populate_list() under the new marks
Repopulate(marks) ==
    /\ MARKED_NS' = marks
    /\ LIST_NS' = populate_rows(RIGS_CACHE, marks, STATUS, UI)
    /\ selected' = populate_selection(LIST_NS', selected)
    /\ UNCHANGED <<RIGS_CACHE, STATUS>>

\* open_bake_ui: a fresh window (new widgets, empty list, nothing selected),
\* then _refresh_rigs_cache() on what list_scene_rigs() returns,
\* _populate_list() and _ui_refresh_cameras()
OpenBakeUI ==
    /\ pc = "idle"
    /\ \E inv \in Inventories :
        /\ RIGS_CACHE' = inv
        /\ MARKED_NS' = refresh_marks(MARKED_NS, inv)
        /\ STATUS' = refresh_status(STATUS, inv)
        /\ LIST_NS' = populate_rows(inv, MARKED_NS', STATUS', UIDefaults)
        /\ selected' = {}
    /\ UI' = [UIDefaults EXCEPT !.om_first = refresh_cameras(cameras)[1],
                                !.om_last = refresh_cameras(cameras)[2]]
    /\ UNCHANGED <<cameras, playback, time_editor>>
    /\ UNCHANGED <<runVars, exprVars, launchVars, api_log, warned>>

\* the operator changes the selection of tsl_rigs (click, Select All/None/Invert)
SelectRows ==
    /\ pc = "idle"
    /\ \E S \in SUBSET Range(LIST_NS) :
        /\ S # selected
        /\ selected' = S
    /\ UNCHANGED <<RIGS_CACHE, MARKED_NS, STATUS, LIST_NS>>
    /\ UNCHANGED <<runVars, hostVars, exprVars, launchVars, api_log, warned>>

\* _mark_selected
MarkSelected ==
    /\ pc = "idle"
    /\ IF selected = {} THEN UNCHANGED registryVars
       ELSE Repopulate(mark_selected(MARKED_NS, selected))
    /\ UNCHANGED <<runVars, hostVars, exprVars, launchVars, api_log, warned>>

\* _unmark_selected
UnmarkSelected ==
    /\ pc = "idle"
    /\ IF selected = {} THEN UNCHANGED registryVars
       ELSE Repopulate(unmark_selected(MARKED_NS, selected))
    /\ UNCHANGED <<runVars, hostVars, exprVars, launchVars, api_log, warned>>

\* _toggle_selected
ToggleSelected ==
    /\ pc = "idle"
    /\ IF selected = {} THEN UNCHANGED registryVars
       ELSE Repopulate(toggle_selected(MARKED_NS, selected))
    /\ UNCHANGED <<runVars, hostVars, exprVars, launchVars, api_log, warned>>

\* _hotkey_toggle_last_selected
HotkeyToggleLastSelected ==
    /\ pc = "idle"
    /\ IF selected = {} THEN UNCHANGED registryVars
       ELSE Repopulate(toggle_selected(MARKED_NS,
                                       {last_selected(LIST_NS, selected)}))
    /\ UNCHANGED <<runVars, hostVars, exprVars, launchVars, api_log, warned>>

\* _clear_all_marks
ClearAllMarks ==
    /\ pc = "idle"
    /\ IF MARKED_NS = {} THEN UNCHANGED registryVars
       ELSE Repopulate({})
    /\ UNCHANGED <<runVars, hostVars, exprVars, launchVars, api_log, warned>>

\* a filter widget changed to ui: its change command is _populate_list()
Refilter(ui) ==
    /\ UI' = ui
    /\ LIST_NS' = populate_rows(RIGS_CACHE, MARKED_NS, STATUS, ui)
    /\ selected' = populate_selection(LIST_NS', selected)
    /\ UNCHANGED <<RIGS_CACHE, MARKED_NS, STATUS, cameras, playback,
                   time_editor>>
    /\ UNCHANGED <<runVars, exprVars, launchVars, api_log, warned>>

\* the operator enters a text in tf_filter
SetFilterText ==
    /\ pc = "idle"
    /\ \E txt \in FilterTexts :
        /\ txt # UI.tf_filter
        /\ Refilter([UI EXCEPT !.tf_filter = txt])

\* the operator clicks cb_hide_baked
ToggleHideBaked ==
    /\ pc = "idle"
    /\ Refilter([UI EXCEPT !.cb_hide_baked = ~UI.cb_hide_baked])

\* the operator clicks cb_show_only_marked
ToggleShowOnlyMarked ==
    /\ pc = "idle"
    /\ Refilter([UI EXCEPT !.cb_show_only_marked = ~UI.cb_show_only_marked])

\* the Refresh Cameras button: _ui_refresh_cameras()
RefreshCameras ==
    /\ pc = "idle"
    /\ UI' = [UI EXCEPT !.om_first = refresh_cameras(cameras)[1],
                        !.om_last = refresh_cameras(cameras)[2]]
    /\ UNCHANGED <<registryVars, runVars, cameras, playback, time_editor,
                   exprVars,
                   launchVars, api_log, warned>>

\* the operator picks items of the First Camera and Last Camera menus
SelectCameras ==
    /\ pc = "idle"
    /\ \E f \in DOMAIN cameras, l \in DOMAIN cameras :
        /\ <<f, l>> # <<UI.om_first, UI.om_last>>
        /\ UI' = [UI EXCEPT !.om_first = f, !.om_last = l]
    /\ UNCHANGED <<registryVars, runVars, cameras, playback, time_editor,
                   exprVars,
                   launchVars, api_log, warned>>

\* ------------------------------------- handlers run at a yield point
\* the bake loop calls maya.utils.processIdleEvents() before the cancel poll
\* and after each item; a list handler the host delivers there runs to its
\* end while the loop waits between two items

\* the operator changes the selection of tsl_rigs between two items
SelectRowsAtYield ==
    /\ pc = "boundary"
    /\ \E S \in SUBSET Range(LIST_NS) :
        /\ S # selected
        /\ selected' = S
    /\ UNCHANGED <<RIGS_CACHE, MARKED_NS, STATUS, LIST_NS>>
    /\ UNCHANGED <<runVars, hostVars, exprVars, launchVars, api_log, warned>>

\* _mark_selected delivered between two items
MarkSelectedAtYield ==
    /\ pc = "boundary"
    /\ IF selected = {} THEN UNCHANGED registryVars
       ELSE Repopulate(mark_selected(MARKED_NS, selected))
    /\ UNCHANGED <<runVars, hostVars, exprVars, launchVars, api_log, warned>>

\* _unmark_selected delivered between two items
UnmarkSelectedAtYield ==
    /\ pc = "boundary"
    /\ IF selected = {} THEN UNCHANGED registryVars
       ELSE Repopulate(unmark_selected(MARKED_NS, selected))
    /\ UNCHANGED <<runVars, hostVars, exprVars, launchVars, api_log, warned>>

\* _toggle_selected delivered between two items
ToggleSelectedAtYield ==
    /\ pc = "boundary"
    /\ IF selected = {} THEN UNCHANGED registryVars
       ELSE Repopulate(toggle_selected(MARKED_NS, selected))
    /\ UNCHANGED <<runVars, hostVars, exprVars, launchVars, api_log, warned>>

\* _clear_all_marks delivered between two items
ClearAllMarksAtYield ==
    /\ pc = "boundary"
    /\ IF MARKED_NS = {} THEN UNCHANGED registryVars
       ELSE Repopulate({})
    /\ UNCHANGED <<runVars, hostVars, exprVars, launchVars, api_log, warned>>

\* ---------------------------------------------- expression functions
\* a direct call of mute_broken_expressions()
MuteBrokenExpressions ==
    /\ pc = "idle"
    /\ Len(api_log) < MaxApiLog
    /\ \E ok \in SUBSET list_broken_expressions(expressions) :
        /\ expressions' = mute_scene(expressions, ok)
        /\ muted_expr_backup' = mute_backup(expressions)
        /\ warned' = list_broken_expressions(expressions) \ ok
    /\ api_log' = Append(api_log, [fn |-> "mute", raised |-> FALSE])
    /\ UNCHANGED <<registryVars, runVars, hostVars, launchVars>>

\* a direct call of restore_muted_expressions(): NameError on the unbound
\* global, else the texts of the backup written back and the backup cleared
RestoreMutedExpressions ==
    /\ pc = "idle"
    /\ Len(api_log) < MaxApiLog
    /\ IF ~muted_expr_backup.defined
       THEN /\ api_log' = Append(api_log, [fn |-> "restore", raised |-> TRUE])
            /\ UNCHANGED <<exprVars, warned>>
       ELSE /\ \E ok \in SUBSET (DOMAIN muted_expr_backup.items
                                  \cap DOMAIN expressions) :
                /\ expressions' = restore_scene(expressions, muted_expr_backup, ok)
                /\ warned' = restore_warned(expressions, muted_expr_backup, ok)
            /\ muted_expr_backup' = restore_backup(muted_expr_backup)
            /\ api_log' = Append(api_log, [fn |-> "restore", raised |-> FALSE])
    /\ UNCHANGED <<registryVars, runVars, hostVars, launchVars>>

\* an expression node is deleted from the scene (by the operator, or by what
\* the host runs while a bake is under way)
ExpressionDeleted ==
    /\ pc # "call"
    /\ \E ex \in DOMAIN expressions :
        expressions' = [x \in DOMAIN expressions \ {ex} |-> expressions[x]]
    /\ UNCHANGED <<registryVars, runVars, hostVars, muted_expr_backup,
                   launchVars, api_log, warned>>

\* ------------------------------------------------------------ bake run
\* skip_filter that removes nothing from the list
skip_filter_not_applied(nss, read) == nss

\* _on_run_bake, Skip-Baked filter: the marked namespaces whose bind driver
\* reads other than 1 at launch (read: namespace -> value read for it)
skip_filter(nss, read) == SelectSeq(nss, LAMBDA ns : read[ns] # "1")

RECURSIVE skip_removed(_, _, _, _)
\* _on_run_bake: for ns in pre: if ns not in bake_namespaces: 'skipped'
skip_removed(st, pre, kept, k) ==
    IF k > Len(pre) THEN st
    ELSE skip_removed(IF pre[k] \notin Range(kept)
                      THEN status_set(st, pre[k], "skipped") ELSE st,
                      pre, kept, k + 1)

\* the _status_set calls of the Skip-Baked filter, in the order of pre
skip_removed_log(pre, kept) ==
    LET gone == SelectSeq(pre, LAMBDA ns : ns \notin Range(kept))
    IN  [j \in 1..Len(gone) |-> [ns |-> gone[j], state |-> "skipped"]]

\* the _status_set calls of the loop's cancel branch: namespaces[i-1:]
cancel_rest_log(nss, k) ==
    [j \in 1..(Len(nss) + 1 - k) |-> [ns |-> nss[k + j - 1],
                                      state |-> "canceled"]]

\* loop_skips taking a missing attribute (None) for a bind driver that is on
loop_skips_unknown_too(skip, bsd) == bsd # "0"

\* the loop's skip test on the bind driver value re-read for the item; the
\* Skip check box is not consulted here
loop_skips(skip, bsd) == bsd = "1"

\* bake_status with the except branch recording 'baked' as well
bake_status_always_baked(outcome) == "baked"

\* the status the loop records for a batch() call that returned / raised
bake_status(outcome) == IF outcome = "returned" THEN "baked" ELSE "failed"

\* cancel_rest with the item the poll stopped at left out (namespaces[i:])
cancel_rest_after_current(st, nss, k) == set_all(st, nss, k + 1, "canceled")

\* cancel_rest over the whole list (namespaces[0:])
cancel_rest_whole_list(st, nss, k) == set_all(st, nss, 1, "canceled")

\* cancel_rest over every status on record
cancel_rest_every_status(st, nss, k) ==
    [x \in DOMAIN st \cup Range(nss) |-> "canceled"]

\* the loop's cancel branch: every namespace from index k on becomes 'canceled'
cancel_rest(st, nss, k) == set_all(st, nss, k, "canceled")

\* control returns from the bake function to _on_run_bake and from there to
\* the host: _populate_list() shows the final statuses
ReturnFromBake(st, res) ==
    /\ STATUS' = st
    /\ pc' = "idle"
    /\ result' = res
    /\ IF restore_expr /\ muted # {}
       THEN \E ok \in SUBSET (DOMAIN muted_expr_backup.items
                                \cap DOMAIN expressions) :
            /\ expressions' = restore_scene(expressions, muted_expr_backup, ok)
            /\ muted_expr_backup' = restore_backup(muted_expr_backup)
            /\ warned' = restore_warned(expressions, muted_expr_backup, ok)
       ELSE UNCHANGED <<exprVars, warned>>
    /\ LIST_NS' = populate_rows(RIGS_CACHE, MARKED_NS, st, UI)
    /\ selected' = populate_selection(LIST_NS', selected)
    /\ UNCHANGED <<RIGS_CACHE, MARKED_NS>>

\* _on_run_bake from 'Compute range' to the playbackOptions call: the range
\* (the handler returns when there is none), _validate_range, the Time
\* Editor wipe when it was confirmed (wipe), the muting of the broken
\* expressions when the Mute box is on, the time slider set to the range
PrepareRun(wipe) ==
    LET raw == compute_range(UI, cameras, playback)
    IN  /\ raw # <<>>
        /\ raw_range' = raw
        /\ frame_range' = validate_range(raw[1], raw[2])
        /\ IF wipe /\ time_editor
           THEN \E deleted \in BOOLEAN : time_editor' = ~deleted
           ELSE UNCHANGED time_editor
        /\ IF UI.cb_mute
           THEN \E ok \in SUBSET list_broken_expressions(expressions) :
                /\ expressions' = mute_scene(expressions, ok)
                /\ muted_expr_backup' = mute_backup(expressions)
                /\ muted' = list_broken_expressions(expressions)
                /\ warned' = list_broken_expressions(expressions) \ ok
           ELSE /\ UNCHANGED <<exprVars, warned>>
                /\ muted' = {}
        /\ restore_expr' = UI.cb_restore
        /\ playback' = frame_range'
        /\ UNCHANGED <<UI, cameras, api_log>>

\* _on_run_bake with rigs marked, from 'Compute range' to the call of the
\* bake function: the list is sorted(_MARKED_NS), minus (when the Skip check
\* box is on) those whose bind driver reads 1 at launch, which are set
\* 'skipped' at once; then the bake function is called with it. The check
\* boxes and _MARKED_NS, read at the top of the handler, are recorded here:
\* only handlers of the window change them, and none runs while the handler
\* waits in a dialog
LaunchMarked(wipe) ==
    /\ \E skip \in BOOLEAN, read \in [MARKED_NS -> BindValues] :
        LET pre  == sorted(MARKED_NS)
            kept == IF skip THEN skip_filter(pre, read) ELSE pre
        IN  /\ skip_baked' = skip
            /\ bake_namespaces' = pre
            /\ namespaces' = kept
            /\ STATUS' = IF skip THEN skip_removed(STATUS, pre, kept, 1)
                         ELSE STATUS
            /\ status_log' = IF skip THEN skip_removed_log(pre, kept)
                             ELSE <<>>
            /\ bind_on_at_launch' = IF skip
                                    THEN {ns \in MARKED_NS : read[ns] = "1"}
                                    ELSE {}
    /\ PrepareRun(wipe)
    /\ pc' = "call"
    /\ result' = "none"
    /\ UNCHANGED <<RIGS_CACHE, MARKED_NS, LIST_NS, selected, loop_i,
                   isCancelled, calls>>

\* _on_run_bake with nothing marked and 'Yes, bake all' given, from 'Compute
\* range' to the call of the bake function: it is called with every
\* namespace of get_all_actors_in_scene()
LaunchAll(wipe) ==
    /\ \E skip \in BOOLEAN, ns_list \in NsLists :
        /\ skip_baked' = skip
        /\ bake_namespaces' = ns_list
        /\ namespaces' = ns_list
    /\ status_log' = <<>>
    /\ bind_on_at_launch' = {}
    /\ PrepareRun(wipe)
    /\ pc' = "call"
    /\ result' = "none"
    /\ UNCHANGED <<registryVars, loop_i, isCancelled, calls>>

\* _on_run_bake goes from pc to the place to: a dialog opens, or the handler
\* returns, with nothing changed
RunBakeGoes(to) ==
    /\ pc' = to
    /\ UNCHANGED <<registryVars, skip_baked, bake_namespaces, namespaces,
                   loop_i, isCancelled, calls, result, status_log,
                   bind_on_at_launch>>
    /\ UNCHANGED <<hostVars, exprVars, launchVars, api_log, warned>>

\* Run Bake pressed with rigs marked and the Time Editor box off: no dialog,
\* the handler runs through to the call of the bake function
RunBakeMarked ==
    /\ pc = "idle"
    /\ MARKED_NS # {}
    /\ ~UI.cb_timeeditor
    /\ LaunchMarked(FALSE)

\* Run Bake pressed with nothing marked, or with the Time Editor box on: the
\* handler opens a confirmDialog and waits for the answer
RunBakeAsk ==
    /\ pc = "idle"
    /\ MARKED_NS = {} \/ UI.cb_timeeditor
    /\ RunBakeGoes(IF MARKED_NS = {} THEN "confirm_all" ELSE "confirm_te")

\* the answer to 'Bake All Rigs?': on anything but 'Yes, bake all' the
\* handler returns; else it opens 'Delete Time Editor?' when that box is on,
\* and otherwise runs through to the call of the bake function (or returns
\* when no range can be computed)
AnswerBakeAll ==
    /\ pc = "confirm_all"
    /\ \E yes \in BOOLEAN :
        IF ~yes THEN RunBakeGoes("idle")
        ELSE IF UI.cb_timeeditor THEN RunBakeGoes("confirm_te")
        ELSE IF compute_range(UI, cameras, playback) = <<>>
        THEN RunBakeGoes("idle")
        ELSE LaunchAll(FALSE)

\* the answer to 'Delete Time Editor?': the wipe is made only on 'Yes,
\* delete'; either way the handler runs through to the call of the bake
\* function (or returns when no range can be computed)
AnswerTimeEditor ==
    /\ pc = "confirm_te"
    /\ \E wipe \in BOOLEAN :
        IF compute_range(UI, cameras, playback) = <<>>
        THEN RunBakeGoes("idle")
        ELSE IF MARKED_NS # {} THEN LaunchMarked(wipe)
        ELSE LaunchAll(wipe)

\* EnterBake without the 'if total == 0: return' test
EnterBake_no_early_return ==
    /\ pc = "call"
    /\ calls' = <<>>
    /\ loop_i' = 1
    /\ isCancelled' = FALSE
    /\ pc' = "boundary"
    /\ UNCHANGED <<registryVars, result, exprVars>>
    /\ UNCHANGED <<skip_baked, bake_namespaces, namespaces,
                   bind_on_at_launch, status_log>>
    /\ UNCHANGED <<hostVars, launchVars, api_log, warned>>

\* entry of bake_selected_actors_in_range_with_progress: return at once for
\* an empty list (no progress window, isCancelled as the last run left it),
\* else open the progress window (isCancelled cleared) and start the loop
\* at i = 1
EnterBake ==
    /\ pc = "call"
    /\ calls' = <<>>
    /\ loop_i' = 1
    /\ IF Len(namespaces) = 0
       THEN /\ ReturnFromBake(STATUS, "empty")
            /\ UNCHANGED isCancelled
       ELSE /\ isCancelled' = FALSE
            /\ pc' = "boundary"
            /\ UNCHANGED <<registryVars, result, exprVars, warned>>
    /\ UNCHANGED <<skip_baked, bake_namespaces, namespaces,
                   bind_on_at_launch, status_log>>
    /\ UNCHANGED <<hostVars, launchVars, api_log>>

\* Run Bake pressed with rigs marked and the Time Editor box off, and no
\* range can be computed: the handler returns before it changed anything
RunBakeAbandoned ==
    /\ pc = "idle"
    /\ MARKED_NS # {}
    /\ ~UI.cb_timeeditor
    /\ compute_range(UI, cameras, playback) = <<>>
    /\ UNCHANGED vars

\* the operator presses Esc while the progress window is up
RequestCancel ==
    /\ pc \in {"boundary", "baking"}
    /\ ~isCancelled
    /\ isCancelled' = TRUE
    /\ UNCHANGED registryVars
    /\ UNCHANGED <<pc, skip_baked, bake_namespaces, namespaces,
                   bind_on_at_launch, loop_i, calls,
                   result, status_log>>
    /\ UNCHANGED <<hostVars, exprVars, launchVars, api_log, warned>>

\* top of iteration i, the poll finds isCancelled set: every item from i on
\* becomes 'canceled' and the loop is left
BeginItemCancelled ==
    /\ pc = "boundary"
    /\ loop_i <= Len(namespaces)
    /\ isCancelled
    /\ ReturnFromBake(cancel_rest(STATUS, namespaces, loop_i), "canceled")
    /\ status_log' = status_log \o cancel_rest_log(namespaces, loop_i)
    /\ UNCHANGED <<skip_baked, bake_namespaces, namespaces,
                   bind_on_at_launch, loop_i,
                   isCancelled, calls>>
    /\ UNCHANGED <<hostVars, launchVars, api_log>>

\* BeginItemRead passing over an item that is no longer marked (the loop
\* consulting _MARKED_NS instead of its own list)
BeginItemRead_checks_mark(bsd) ==
    /\ pc = "boundary"
    /\ loop_i <= Len(namespaces)
    /\ ~isCancelled
    /\ IF namespaces[loop_i] \notin MARKED_NS
       THEN /\ loop_i' = loop_i + 1
            /\ UNCHANGED <<registryVars, pc, calls, result, status_log>>
       ELSE IF loop_skips(skip_baked, bsd)
       THEN /\ STATUS' = status_set(STATUS, namespaces[loop_i], "skipped")
            /\ status_log' = Append(status_log, [ns |-> namespaces[loop_i],
                                                 state |-> "skipped"])
            /\ loop_i' = loop_i + 1
            /\ UNCHANGED <<RIGS_CACHE, MARKED_NS, LIST_NS, selected, pc,
                           calls, result>>
       ELSE /\ calls' = Append(calls, [ns |-> namespaces[loop_i],
                                       res |-> "running"])
            /\ pc' = "baking"
            /\ UNCHANGED <<registryVars, loop_i, result, status_log>>
    /\ UNCHANGED <<skip_baked, bake_namespaces, namespaces,
                   bind_on_at_launch, isCancelled>>
    /\ UNCHANGED <<hostVars, exprVars, launchVars, api_log, warned>>

\* top of iteration i, no cancel seen: _read_bind_driver(ns) gives bsd, and
\* the item is either skipped or handed to the retarget batch() call
BeginItemRead(bsd) ==
    /\ pc = "boundary"
    /\ loop_i <= Len(namespaces)
    /\ ~isCancelled
    /\ IF loop_skips(skip_baked, bsd)
       THEN /\ STATUS' = status_set(STATUS, namespaces[loop_i], "skipped")
            /\ status_log' = Append(status_log, [ns |-> namespaces[loop_i],
                                                 state |-> "skipped"])
            /\ loop_i' = loop_i + 1
            /\ UNCHANGED <<RIGS_CACHE, MARKED_NS, LIST_NS, selected, pc,
                           calls, result>>
       ELSE /\ calls' = Append(calls, [ns |-> namespaces[loop_i],
                                       res |-> "running"])
            /\ pc' = "baking"
            /\ UNCHANGED <<registryVars, loop_i, result, status_log>>
    /\ UNCHANGED <<skip_baked, bake_namespaces, namespaces,
                   bind_on_at_launch, isCancelled>>
    /\ UNCHANGED <<hostVars, exprVars, launchVars, api_log, warned>>

\* top of iteration i: the cancel poll, then the bind driver re-read and
\* either the skip or the start of the retarget batch() call
BeginItem ==
    \/ BeginItemCancelled
    \/ \E bsd \in BindValues : BeginItemRead(bsd)

\* FinishItem with a 'break' in the except branch: a failure ends the loop
FinishItem_break_on_failure ==
    /\ pc = "baking"
    /\ \E outcome \in {"returned", "raised"} :
        /\ calls' = [calls EXCEPT ![Len(calls)].res = outcome]
        /\ status_log' = Append(status_log, [ns |-> namespaces[loop_i],
                                             state |-> bake_status(outcome)])
        /\ IF outcome = "raised"
           THEN /\ ReturnFromBake(status_set(STATUS, namespaces[loop_i],
                                             "failed"), "completed")
                /\ UNCHANGED loop_i
           ELSE /\ STATUS' = status_set(STATUS, namespaces[loop_i], "baked")
                /\ loop_i' = loop_i + 1
                /\ pc' = "boundary"
                /\ UNCHANGED <<RIGS_CACHE, MARKED_NS, LIST_NS, selected, result,
                               exprVars, warned>>
    /\ UNCHANGED <<skip_baked, bake_namespaces, namespaces,
                   bind_on_at_launch, isCancelled>>
    /\ UNCHANGED <<hostVars, launchVars, api_log>>

\* FinishItem with the cancel flag looked at when the call ends: an item
\* whose call ended after Esc was pressed is recorded 'canceled'
FinishItem_cancel_observed ==
    /\ pc = "baking"
    /\ \E outcome \in {"returned", "raised"} :
        /\ calls' = [calls EXCEPT ![Len(calls)].res = outcome]
        /\ STATUS' = status_set(STATUS, namespaces[loop_i],
                                IF isCancelled THEN "canceled"
                                ELSE bake_status(outcome))
        /\ status_log' = Append(status_log,
                                [ns |-> namespaces[loop_i],
                                 state |-> IF isCancelled THEN "canceled"
                                           ELSE bake_status(outcome)])
    /\ loop_i' = loop_i + 1
    /\ pc' = "boundary"
    /\ UNCHANGED <<RIGS_CACHE, MARKED_NS, LIST_NS, selected, skip_baked,
                   bake_namespaces, namespaces,
                   bind_on_at_launch, isCancelled, result>>
    /\ UNCHANGED <<hostVars, exprVars, launchVars, api_log, warned>>

\* the retarget batch() call of item i returns or raises; the loop records
\* 'baked' or 'failed' and moves on to the next iteration
FinishItem ==
    /\ pc = "baking"
    /\ \E outcome \in {"returned", "raised"} :
        /\ calls' = [calls EXCEPT ![Len(calls)].res = outcome]
        /\ STATUS' = status_set(STATUS, namespaces[loop_i], bake_status(outcome))
        /\ status_log' = Append(status_log, [ns |-> namespaces[loop_i],
                                             state |-> bake_status(outcome)])
    /\ loop_i' = loop_i + 1
    /\ pc' = "boundary"
    /\ UNCHANGED <<RIGS_CACHE, MARKED_NS, LIST_NS, selected, skip_baked,
                   bake_namespaces, namespaces,
                   bind_on_at_launch, isCancelled, result>>
    /\ UNCHANGED <<hostVars, exprVars, launchVars, api_log, warned>>

\* the loop ran past the last item: the progress window closes and the
\* bake function returns
EndLoop ==
    /\ pc = "boundary"
    /\ loop_i > Len(namespaces)
    /\ ReturnFromBake(STATUS, "completed")
    /\ UNCHANGED <<skip_baked, bake_namespaces, namespaces,
                   bind_on_at_launch, loop_i,
                   isCancelled, calls, status_log>>
    /\ UNCHANGED <<hostVars, launchVars, api_log>>

\* ------------------------------------------------------- specifications
\* module load: empty globals, then the open_bake_ui() call of the last line
\* no run yet: nothing launched, no handler running
InitRun ==
    /\ pc = "idle"
    /\ skip_baked = TRUE
    /\ bake_namespaces = <<>>
    /\ namespaces = <<>>
    /\ loop_i = 1
    /\ isCancelled = FALSE
    /\ calls = <<>>
    /\ result = "none"
    /\ raw_range = <<>>
    /\ frame_range = <<>>
    /\ restore_expr = FALSE
    /\ muted = {}
    /\ muted_expr_backup = NoBackup
    /\ api_log = <<>>
    /\ warned = {}
    /\ status_log = <<>>
    /\ bind_on_at_launch = {}

\* the widgets as open_bake_ui leaves them on the scene's cameras
InitWidgets ==
    UI = [UIDefaults EXCEPT !.om_first = refresh_cameras(cameras)[1],
                            !.om_last = refresh_cameras(cameras)[2]]

\* a scene with one camera that has headIn and tailOut, the time slider on
\* the same frames, and no expression node
InitScene ==
    /\ cameras = <<[headIn |-> <<0>>, tailOut |-> <<1>>]>>
    /\ playback = <<0, 1>>
    /\ time_editor = TRUE
    /\ expressions = <<>>

Init ==
    /\ \E inv \in Inventories :
        /\ RIGS_CACHE = inv
        /\ STATUS = refresh_status(<<>>, inv)
        /\ LIST_NS = populate_rows(inv, {}, STATUS, UIDefaults)
    /\ MARKED_NS = {}
    /\ selected = {}
    /\ InitScene
    /\ InitWidgets
    /\ InitRun

Next ==
    \/ OpenBakeUI
    \/ SelectRows
    \/ MarkSelected
    \/ UnmarkSelected
    \/ ToggleSelected
    \/ HotkeyToggleLastSelected
    \/ ClearAllMarks
    \/ RunBakeMarked
    \/ RunBakeAsk
    \/ AnswerBakeAll
    \/ EnterBake
    \/ RequestCancel
    \/ BeginItem
    \/ FinishItem
    \/ EndLoop

Spec == Init /\ [][Next]_vars

\* the window is open on an inventory holding every namespace, the operator
\* has marked some of them and left the Time Editor box on or off; then only
\* bake runs happen
InitBatch ==
    /\ \E inv \in Inventories :
        /\ Len(inv) = NumIds
        /\ \A k \in 1..(NumIds - 1) : inv[k].namespace > inv[k + 1].namespace
        /\ RIGS_CACHE = inv
        /\ STATUS = refresh_status(<<>>, inv)
        /\ LIST_NS = populate_rows(inv, {}, STATUS, UIDefaults)
    /\ MARKED_NS \in SUBSET Ids
    /\ selected = {}
    /\ InitScene
    /\ \E te \in BOOLEAN :
        UI = [UIDefaults EXCEPT !.om_first = refresh_cameras(cameras)[1],
                                !.om_last = refresh_cameras(cameras)[2],
                                !.cb_timeeditor = te]
    /\ InitRun

NextBatch ==
    \/ RunBakeMarked
    \/ RunBakeAsk
    \/ AnswerBakeAll
    \/ AnswerTimeEditor
    \/ EnterBake
    \/ RequestCancel
    \/ BeginItem
    \/ FinishItem
    \/ EndLoop

SpecBatch == InitBatch /\ [][NextBatch]_vars

NextRegistry ==
    \/ OpenBakeUI
    \/ SelectRows
    \/ MarkSelected
    \/ UnmarkSelected
    \/ ToggleSelected
    \/ HotkeyToggleLastSelected
    \/ ClearAllMarks

SpecRegistry == Init /\ [][NextRegistry]_vars

\* the window is opened again and again on a changing scene, nothing else
NextRefresh ==
    \/ OpenBakeUI

SpecRefresh == Init /\ [][NextRefresh]_vars

\* the operator works on the list: selection, marks, the three filter
\* widgets
NextView ==
    \/ SelectRows
    \/ MarkSelected
    \/ UnmarkSelected
    \/ ToggleSelected
    \/ HotkeyToggleLastSelected
    \/ ClearAllMarks
    \/ SetFilterText
    \/ ToggleHideBaked
    \/ ToggleShowOnlyMarked

SpecView == Init /\ [][NextView]_vars

\* the range widgets as the operator can have set them on the cameras cams:
\* any range source, padding and fallback; the camera menus on any items in
\* From Cameras mode (as _ui_refresh_cameras chose them otherwise); the
\* Custom fields on any frames in Custom mode (as built otherwise)
RangeSetups(cams) ==
    {[UIDefaults EXCEPT !.rbg_method = m, !.cb_prepost_enable = en,
                        !.if_pre = a, !.if_post = b, !.cb_fallback = fb,
                        !.om_first = om[1], !.om_last = om[2],
                        !.if_start = cu[1], !.if_end = cu[2]] :
        m \in 1..3, en \in BOOLEAN, fb \in BOOLEAN,
        a \in (0 - MaxPad)..MaxPad, b \in (0 - MaxPad)..MaxPad,
        om \in {refresh_cameras(cams)} \cup ((DOMAIN cams) \X (DOMAIN cams)),
        cu \in {<<UIDefaults.if_start, UIDefaults.if_end>>}
                \cup ((0..MaxScene) \X (0..MaxScene))}

\* the window is open on one marked rig, in a scene with any cameras and any
\* time slider; the operator has set the range widgets and presses Run Bake
InitRange ==
    /\ RIGS_CACHE = <<[namespace |-> 1, actor_name |-> ActorName(1),
                       bind_skeleton_driver |-> "0"]>>
    /\ STATUS = refresh_status(<<>>, RIGS_CACHE)
    /\ MARKED_NS = {1}
    /\ LIST_NS = populate_rows(RIGS_CACHE, MARKED_NS, STATUS, UIDefaults)
    /\ selected = {}
    /\ cameras \in CameraLists
    /\ playback \in {pb \in (0..MaxScene) \X (0..MaxScene) : pb[1] <= pb[2]}
    /\ time_editor = TRUE
    /\ expressions = <<>>
    /\ UI \in {ui \in RangeSetups(cameras) :
                /\ ui.rbg_method # 1 =>
                        /\ <<ui.om_first, ui.om_last>> = refresh_cameras(cameras)
                        /\ ui.cb_fallback = UIDefaults.cb_fallback
                /\ ui.rbg_method # 3 =>
                        /\ ui.if_start = UIDefaults.if_start
                        /\ ui.if_end = UIDefaults.if_end}
    /\ InitRun

NextRange ==
    \/ RunBakeMarked
    \/ RunBakeAbandoned

SpecRange == InitRange /\ [][NextRange]_vars

\* a scene with any expression nodes; the expression functions are called
\* directly, and nodes get deleted
InitMute ==
    /\ RIGS_CACHE = <<>>
    /\ STATUS = <<>>
    /\ MARKED_NS = {}
    /\ LIST_NS = <<>>
    /\ selected = {}
    /\ cameras = <<>>
    /\ playback = <<0, 1>>
    /\ time_editor = TRUE
    /\ expressions \in Scenes
    /\ InitWidgets
    /\ InitRun

NextMute ==
    \/ MuteBrokenExpressions
    \/ RestoreMutedExpressions
    \/ ExpressionDeleted

SpecMute == InitMute /\ [][NextMute]_vars

\* the window is open on two marked rigs, in a scene with any expression
\* nodes; the operator has set the Mute and Restore boxes; runs follow one
\* another, and expression nodes get deleted
InitGuard ==
    /\ RIGS_CACHE = <<[namespace |-> 1, actor_name |-> ActorName(1),
                       bind_skeleton_driver |-> "0"],
                      [namespace |-> 2, actor_name |-> ActorName(2),
                       bind_skeleton_driver |-> "0"]>>
    /\ STATUS = refresh_status(<<>>, RIGS_CACHE)
    /\ MARKED_NS = {1, 2}
    /\ LIST_NS = populate_rows(RIGS_CACHE, MARKED_NS, STATUS, UIDefaults)
    /\ selected = {}
    /\ cameras = <<[headIn |-> <<0>>, tailOut |-> <<1>>]>>
    /\ playback = <<0, 1>>
    /\ time_editor = TRUE
    /\ expressions \in Scenes
    /\ \E m \in BOOLEAN, r \in BOOLEAN, te \in BOOLEAN :
        UI = [UIDefaults EXCEPT !.om_first = refresh_cameras(cameras)[1],
                                !.om_last = refresh_cameras(cameras)[2],
                                !.cb_mute = m, !.cb_restore = r,
                                !.cb_timeeditor = te]
    /\ InitRun

NextGuard ==
    \/ RunBakeMarked
    \/ RunBakeAsk
    \/ AnswerTimeEditor
    \/ EnterBake
    \/ RequestCancel
    \/ BeginItem
    \/ FinishItem
    \/ EndLoop
    \/ ExpressionDeleted

SpecGuard == InitGuard /\ [][NextGuard]_vars

\* the window is open on two rigs, one of them with its bind driver on; the
\* operator works on the list (selection, marks, filter widgets) and runs
\* bakes of the marked rigs
InitSelection ==
    /\ RIGS_CACHE = <<[namespace |-> 1, actor_name |-> ActorName(1),
                       bind_skeleton_driver |-> "0"],
                      [namespace |-> 2, actor_name |-> ActorName(2),
                       bind_skeleton_driver |-> "1"]>>
    /\ STATUS = refresh_status(<<>>, RIGS_CACHE)
    /\ MARKED_NS = {}
    /\ LIST_NS = populate_rows(RIGS_CACHE, MARKED_NS, STATUS, UIDefaults)
    /\ selected = {}
    /\ InitScene
    /\ InitWidgets
    /\ InitRun

NextSelection ==
    \/ SelectRows
    \/ MarkSelected
    \/ UnmarkSelected
    \/ ToggleSelected
    \/ HotkeyToggleLastSelected
    \/ ClearAllMarks
    \/ SetFilterText
    \/ ToggleHideBaked
    \/ ToggleShowOnlyMarked
    \/ RunBakeMarked
    \/ EnterBake
    \/ RequestCancel
    \/ BeginItem
    \/ FinishItem
    \/ EndLoop

SpecSelection == InitSelection /\ [][NextSelection]_vars

\* a scene with any *_ANIM cameras; the window is opened, the operator picks
\* cameras in the menus and presses Refresh Cameras
InitCameras ==
    /\ \E inv \in Inventories :
        /\ RIGS_CACHE = inv
        /\ STATUS = refresh_status(<<>>, inv)
        /\ LIST_NS = populate_rows(inv, {}, STATUS, UIDefaults)
    /\ MARKED_NS = {}
    /\ selected = {}
    /\ cameras \in CameraLists
    /\ playback = <<0, 1>>
    /\ time_editor = TRUE
    /\ expressions = <<>>
    /\ InitWidgets
    /\ InitRun

NextCameras ==
    \/ OpenBakeUI
    \/ RefreshCameras
    \/ SelectCameras

SpecCameras == InitCameras /\ [][NextCameras]_vars

\* the window is open on two rigs; the operator selects and marks rows and
\* runs bakes of the marked rigs, and goes on selecting and marking while a
\* bake is between two items
NextYield ==
    \/ SelectRows
    \/ MarkSelected
    \/ UnmarkSelected
    \/ ClearAllMarks
    \/ RunBakeMarked
    \/ EnterBake
    \/ RequestCancel
    \/ BeginItem
    \/ FinishItem
    \/ EndLoop
    \/ SelectRowsAtYield
    \/ MarkSelectedAtYield
    \/ UnmarkSelectedAtYield
    \/ ToggleSelectedAtYield
    \/ ClearAllMarksAtYield

SpecYield == InitSelection /\ [][NextYield]_vars

\* ---------------------------------------------------------- properties
\* the last call of the bake function has returned and no new run has begun
Returned == pc = "idle" /\ result # "none"

\* the bake loop is running, or has returned: the run's log and index are current
InRun == pc \in {"boundary", "baking"} \/ Returned

\* the retarget batch() call was made for ns in the current run
Called(ns) == \E k \in DOMAIN calls : calls[k].ns = ns

\* how that call ended
CallRes(ns) == calls[CHOOSE k \in DOMAIN calls : calls[k].ns = ns].res

\* C1: once the run has returned (loop completed, canceled, or nothing to do),
\* every namespace of the run's id list has a terminal status; none reads 'not'.
C1_AllTerminal ==
    Returned =>
        \A ns \in Range(bake_namespaces) :
            status_get(STATUS, ns) \in TerminalStatus

C1_Witness ==
    /\ Returned
    /\ result = "canceled"
    /\ Len(bake_namespaces) >= 2
    /\ loop_i = 2
    /\ \E ns \in Range(bake_namespaces) : STATUS[ns] = "skipped"

\* C2: when the loop was canceled at index loop_i, every item from that index
\* on is 'canceled' and every earlier item has the status its own processing
\* gave it: 'baked' if its call returned, 'failed' if it raised, 'skipped' if
\* no call was made for it.
C2_CancelSplit ==
    (Returned /\ result = "canceled") =>
        \A j \in DOMAIN namespaces :
            IF j >= loop_i
            THEN STATUS[namespaces[j]] = "canceled"
            ELSE STATUS[namespaces[j]] =
                    IF ~Called(namespaces[j]) THEN "skipped"
                    ELSE IF CallRes(namespaces[j]) = "returned" THEN "baked"
                    ELSE "failed"

C2_Witness ==
    /\ Returned
    /\ result = "canceled"
    /\ Len(namespaces) >= 2
    /\ loop_i = 2
    /\ STATUS[namespaces[1]] = "failed"
    /\ STATUS[namespaces[2]] = "canceled"

\* C3: when the loop ended without a cancel, every item of the list was
\* reached: it was skipped or a batch() call was made for it, whatever the
\* outcome of the items before it.
C3_FailureDoesNotStop ==
    (Returned /\ result = "completed") =>
        \A j \in DOMAIN namespaces :
            Called(namespaces[j]) \/ STATUS[namespaces[j]] = "skipped"

C3_Witness ==
    /\ Returned
    /\ result = "completed"
    /\ Len(namespaces) >= 2
    /\ STATUS[namespaces[1]] = "failed"
    /\ Called(namespaces[2])

\* C4: for every batch() call of the run that has ended, the item's status is
\* 'baked' if the call returned and 'failed' if it raised; after a call that
\* raised, the loop has moved past the item (the failure stays at the item).
C4_OutcomeRecorded ==
    InRun =>
        \A k \in DOMAIN calls :
            /\ calls[k].res = "returned" => STATUS[calls[k].ns] = "baked"
            /\ calls[k].res = "raised" =>
                /\ STATUS[calls[k].ns] = "failed"
                /\ \E j \in 1..(loop_i - 1) : namespaces[j] = calls[k].ns
                /\ result \in {"none", "completed", "canceled"}

C4_Witness ==
    /\ Returned
    /\ result = "completed"
    /\ \E k \in DOMAIN calls :
        /\ calls[k].res = "raised"
        /\ \E m \in DOMAIN calls : m > k /\ calls[m].res = "returned"

\* C5: in a run launched with the Skip check box off, no item the loop has
\* handled is 'skipped' (a skip happens only under the skip policy).
C5_SkipOnlyUnderPolicy ==
    (InRun /\ ~skip_baked) =>
        \A j \in DOMAIN namespaces :
            j < loop_i => STATUS[namespaces[j]] # "skipped"

\* C6: no step of a run changes the status entry of a namespace outside the
\* run's id list.
C6_OthersUntouched ==
    [][\A ns \in (DOMAIN STATUS \cup DOMAIN STATUS') \ Range(bake_namespaces') :
            /\ ns \in DOMAIN STATUS
            /\ ns \in DOMAIN STATUS'
            /\ STATUS'[ns] = STATUS[ns]]_vars

C6_Witness ==
    /\ Returned
    /\ result = "canceled"
    /\ \E ns \in DOMAIN STATUS \ Range(bake_namespaces) : STATUS[ns] = "baked"

\* C7: the bake function called with an empty list returns at once: no
\* batch() call, and status, marks and cache are as before the call.
C7_EmptyListNoop ==
    [][(pc = "call" /\ namespaces = <<>>) =>
            /\ pc' = "idle"
            /\ result' = "empty"
            /\ calls' = <<>>
            /\ UNCHANGED <<STATUS, MARKED_NS, RIGS_CACHE>>]_vars

C7_Witness ==
    /\ Returned
    /\ result = "empty"
    /\ namespaces = <<>>
    /\ calls = <<>>

\* C8: no refresh changes or drops a status already on record, whether or
\* not the namespace is still in the cache and whatever its bind driver now
\* reads: a namespace is seeded at most once.
C8_SeedOnce ==
    [][\A ns \in DOMAIN STATUS :
            ns \in DOMAIN STATUS' /\ STATUS'[ns] = STATUS[ns]]_vars

C8_Witness ==
    /\ \E k \in DOMAIN RIGS_CACHE :
        /\ RIGS_CACHE[k].bind_skeleton_driver = "1"
        /\ STATUS[RIGS_CACHE[k].namespace] = "not"
    /\ DOMAIN STATUS \ CacheNs(RIGS_CACHE) # {}

\* C9: the first refresh (and every refresh that brings a namespace not yet
\* on record) gives it 'baked' if its bind driver reads 1 and 'not' if it
\* reads 0 or None; a namespace not on record reads 'not'.
C9_SeedValue ==
    /\ \A k \in DOMAIN RIGS_CACHE :
        STATUS[RIGS_CACHE[k].namespace] =
            IF RIGS_CACHE[k].bind_skeleton_driver = "1" THEN "baked" ELSE "not"
    /\ [](\A ns \in Ids \ DOMAIN STATUS : status_get(STATUS, ns) = "not")
    /\ [][\A k \in DOMAIN RIGS_CACHE' :
            RIGS_CACHE'[k].namespace \notin DOMAIN STATUS =>
                STATUS'[RIGS_CACHE'[k].namespace] =
                    IF RIGS_CACHE'[k].bind_skeleton_driver = "1"
                    THEN "baked" ELSE "not"]_vars

C9_Witness ==
    /\ Ids \ DOMAIN STATUS # {}
    /\ \E k \in DOMAIN RIGS_CACHE :
        /\ RIGS_CACHE[k].bind_skeleton_driver = "None"
        /\ STATUS[RIGS_CACHE[k].namespace] = "not"

\* C10: the marked set is always within the namespaces of the cache, and a
\* step that adds a namespace to it is a mark or a toggle.
C10_MarksInInventory ==
    /\ [](MARKED_NS \subseteq CacheNs(RIGS_CACHE))
    /\ [][\/ MARKED_NS' \subseteq MARKED_NS
          \/ MarkSelected
          \/ ToggleSelected
          \/ HotkeyToggleLastSelected]_vars

C10_Witness ==
    /\ Returned
    /\ MARKED_NS # {}
    /\ DOMAIN STATUS \ CacheNs(RIGS_CACHE) # {}

\* Mark and Unmark change _MARKED_NS by their set operation on the selected
\* rows (nothing changes when no row is selected)
C11_HandlersApply ==
    /\ [][MarkSelected => MARKED_NS' = mark_selected(MARKED_NS, selected)]_vars
    /\ [][UnmarkSelected =>
            MARKED_NS' = unmark_selected(MARKED_NS, selected)]_vars

\* C11 as stated: pressing Mark and then Unmark on the same rows S leaves the
\* marked set as it was before the Mark, for every S: after a Mark step on S
\* the rows S are still selected, and Unmark on the marks and the selection
\* of that state gives the marks from before the Mark.
C11_MarkUnmarkRestores ==
    [][(MarkSelected /\ selected # {}) =>
        /\ selected' = selected
        /\ unmark_selected(MARKED_NS', selected') = MARKED_NS]_vars

\* C11, amended: pressing Mark and then Unmark on the same rows S leaves the
\* prior marked set minus S; that is the prior marked set exactly when no row
\* of S was marked before. After a Mark step on S the rows S are still
\* selected, and Unmark on the marks and the selection of that state gives
\* the marks from before the Mark without S.
C11_MarkUnmarkRemoves ==
    /\ C11_HandlersApply
    /\ [][(MarkSelected /\ selected # {}) =>
            /\ selected' = selected
            /\ unmark_selected(MARKED_NS', selected') = MARKED_NS \ selected
            /\ (unmark_selected(MARKED_NS', selected') = MARKED_NS)
                    <=> (selected \cap MARKED_NS = {})]_vars

C11_Witness ==
    /\ pc = "idle"
    /\ selected # {}
    /\ selected \cap MARKED_NS = {}
    /\ MARKED_NS # {}

\* C12: pressing Toggle twice on the same rows S, nothing else in between,
\* leaves the marked set as it was, for every S: after a Toggle step on S
\* that leaves the rows S selected, Toggle on the marks and the selection of
\* that state gives the marks from before the first Toggle.
C12_ToggleTwiceIdentity ==
    /\ [][ToggleSelected =>
            MARKED_NS' = IF selected = {} THEN MARKED_NS
                         ELSE toggle_selected(MARKED_NS, selected)]_vars
    /\ [][(ToggleSelected /\ selected # {} /\ selected' = selected) =>
            toggle_selected(MARKED_NS', selected') = MARKED_NS]_vars

C12_Witness ==
    /\ pc = "idle"
    /\ selected \cap MARKED_NS # {}
    /\ selected \ MARKED_NS # {}

\* C13: the range handed to the bake function is (min, max) of the range as
\* computed, so start <= end; and a computed range is launched whether or not
\* it is inverted.
C13_HandedRange ==
    /\ frame_range # <<>> =>
        /\ frame_range[1] = (IF raw_range[1] <= raw_range[2]
                              THEN raw_range[1] ELSE raw_range[2])
        /\ frame_range[2] = (IF raw_range[1] <= raw_range[2]
                              THEN raw_range[2] ELSE raw_range[1])
        /\ frame_range[1] <= frame_range[2]
    /\ (/\ pc = "idle"
        /\ MARKED_NS # {}
        /\ compute_range(UI, cameras, playback) # <<>>)
       => ENABLED RunBakeMarked

C13_Witness ==
    /\ pc = "call"
    /\ UI.cb_prepost_enable
    /\ UI.if_pre < 0
    /\ raw_range[1] > raw_range[2]
    /\ frame_range = <<raw_range[2], raw_range[1]>>

\* both camera reads of From Cameras mode succeed
C14_ReadsOk ==
    /\ read_cam_attr_int(cameras, UI.om_first, "headIn") # <<>>
    /\ read_cam_attr_int(cameras, UI.om_last, "tailOut") # <<>>

\* (lo, hi) of the range source
C14_Bounds ==
    CASE UI.rbg_method = 1 ->
            <<cameras[UI.om_first].headIn[1], cameras[UI.om_last].tailOut[1]>>
      [] UI.rbg_method = 2 -> playback
      [] UI.rbg_method = 3 -> <<UI.if_start, UI.if_end>>

\* C14: the range as computed at launch is (lo - prePad, hi + postPad), with
\* (lo, hi) the first camera's headIn and the last camera's tailOut, or the
\* time slider's ends, or the Custom fields; both pads are 0 when padding is
\* disabled.
C14_RawRange ==
    [][(/\ pc = "idle"
        /\ pc' = "call"
        /\ UI.rbg_method = 1 => C14_ReadsOk)
       => raw_range' =
            <<C14_Bounds[1] - (IF UI.cb_prepost_enable THEN UI.if_pre ELSE 0),
              C14_Bounds[2] + (IF UI.cb_prepost_enable THEN UI.if_post ELSE 0)>>
      ]_vars

C14_Witness ==
    /\ pc = "call"
    /\ UI.rbg_method = 1
    /\ C14_ReadsOk
    /\ UI.om_first # UI.om_last
    /\ UI.cb_prepost_enable
    /\ UI.if_pre # UI.if_post
    /\ raw_range = <<cameras[UI.om_first].headIn[1] - UI.if_pre,
                     cameras[UI.om_last].tailOut[1] + UI.if_post>>

\* From Cameras mode with Allow fallback on, and a camera read that fails
C15_FallbackCase ==
    /\ UI.rbg_method = 1
    /\ UI.cb_fallback
    /\ ~C14_ReadsOk

\* C15: in From Cameras mode with fallback allowed, when the headIn read or
\* the tailOut read fails, the run is launched and the range computed is the
\* one Timeline mode computes with the same padding, in both bounds.
C15_FallbackIsTimeline ==
    /\ []((/\ pc = "idle"
           /\ MARKED_NS # {}
           /\ C15_FallbackCase)
          => ENABLED RunBakeMarked)
    /\ [][(pc = "idle" /\ pc' = "call" /\ C15_FallbackCase)
          => raw_range' = compute_range([UI EXCEPT !.rbg_method = 2],
                                        cameras, playback)]_vars

C15_Witness ==
    /\ pc = "call"
    /\ C15_FallbackCase
    /\ read_cam_attr_int(cameras, UI.om_first, "headIn") # <<>>
    /\ raw_range[1] # cameras[UI.om_first].headIn[1] - pre_of(UI)

\* From Cameras mode with Allow fallback off, and a camera read that fails
C16_Unreadable ==
    /\ UI.rbg_method = 1
    /\ ~UI.cb_fallback
    /\ ~C14_ReadsOk

\* C16: in From Cameras mode with fallback off and a failing camera read, no
\* step launches a run: no range is recorded, no expression is muted, no
\* batch() call is made, no status and no other part of the state changes.
C16_AbandonedUnchanged ==
    [][(pc = "idle" /\ C16_Unreadable)
       => /\ pc' = "idle"
          /\ UNCHANGED <<registryVars, runVars, exprVars, launchVars,
                         playback>>]_vars

C16_Witness ==
    /\ pc = "idle"
    /\ C16_Unreadable
    /\ MARKED_NS # {}
    /\ read_cam_attr_int(cameras, UI.om_first, "headIn") # <<>>
    /\ raw_range = <<>>
    /\ frame_range = <<>>
    /\ ~muted_expr_backup.defined

\* the inclusion predicate of the view for the rig at position k of the cache
C17_Included(k) ==
    LET rig   == RIGS_CACHE[k]
        label == rig_pretty_label(rig.namespace, rig.actor_name, MARKED_NS,
                                  STATUS)
    IN  /\ ~UI.cb_hide_baked \/ rig.bind_skeleton_driver # "1"
        /\ ~UI.cb_show_only_marked \/ rig.namespace \in MARKED_NS
        /\ \/ UI.tf_filter = <<>>
           \/ contains(lower(UI.tf_filter), lower(label))

\* C17: the list shows exactly the rigs of the cache that pass the Hide
\* filter (bind driver not 1), the Only-marked filter and the text filter
\* (case-insensitive substring of the label), in cache order; the label holds
\* the mark dot, the namespace, the actor name and the status.
C17_ViewIsFiltered ==
    /\ \A k \in DOMAIN LIST_NS : \E j \in DOMAIN RIGS_CACHE :
            C17_Included(j) /\ RIGS_CACHE[j].namespace = LIST_NS[k]
    /\ \A j \in DOMAIN RIGS_CACHE :
            C17_Included(j) => RIGS_CACHE[j].namespace \in Range(LIST_NS)
    /\ \A k, l \in DOMAIN LIST_NS : \A i, j \in DOMAIN RIGS_CACHE :
            (/\ k < l
             /\ RIGS_CACHE[i].namespace = LIST_NS[k]
             /\ RIGS_CACHE[j].namespace = LIST_NS[l]) => i < j
    /\ \A j \in DOMAIN RIGS_CACHE :
            LET rig   == RIGS_CACHE[j]
                label == rig_pretty_label(rig.namespace, rig.actor_name,
                                          MARKED_NS, STATUS)
            IN  /\ label[1] = (IF rig.namespace \in MARKED_NS
                               THEN "(green)" ELSE "(white)")
                /\ contains(NsName(rig.namespace), label)
                /\ contains(rig.actor_name, label)
                /\ contains(STATUS_LABEL[status_get(STATUS, rig.namespace)],
                            label)

C17_Witness ==
    /\ UI.tf_filter = <<"N", "O", "T">>
    /\ UI.cb_hide_baked
    /\ UI.cb_show_only_marked
    /\ Len(LIST_NS) = 1
    /\ Len(RIGS_CACHE) = 2
    /\ LIST_NS[1] = RIGS_CACHE[2].namespace

\* the rows listed under the widgets ui
C18_View(ui) == populate_rows(RIGS_CACHE, MARKED_NS, STATUS, ui)

\* C18: with the two check boxes as they are, the rows listed under any
\* filter text are among the rows listed under the empty filter text, and
\* no more in number.
C18_FilterNarrows ==
    \A txt \in FilterTexts :
        /\ Range(C18_View([UI EXCEPT !.tf_filter = txt]))
                \subseteq Range(C18_View([UI EXCEPT !.tf_filter = <<>>]))
        /\ Len(C18_View([UI EXCEPT !.tf_filter = txt]))
                <= Len(C18_View([UI EXCEPT !.tf_filter = <<>>]))

C18_Witness ==
    /\ UI.tf_filter # <<>>
    /\ UI.cb_hide_baked
    /\ LIST_NS = C18_View(UI)
    /\ Len(LIST_NS) = 1
    /\ Len(C18_View([UI EXCEPT !.tf_filter = <<>>])) = 2

\* the step is a call of restore_muted_expressions()
RestoreCalled ==
    /\ Len(api_log') = Len(api_log) + 1
    /\ api_log'[Len(api_log')].fn = "restore"

\* C19: a restore that finds the backup dict leaves it empty without
\* raising; a restore on a backup that an earlier restore emptied raises
\* nothing and changes neither an expression's text nor the backup.
C19_RestoreEmptiesBackup ==
    [][RestoreCalled =>
        /\ muted_expr_backup.defined =>
                /\ ~api_log'[Len(api_log')].raised
                /\ muted_expr_backup' = EmptyBackup
        /\ (/\ muted_expr_backup = EmptyBackup
            /\ \E k \in DOMAIN api_log : api_log[k].fn = "restore")
           => /\ ~api_log'[Len(api_log')].raised
              /\ UNCHANGED exprVars]_vars

C19_Witness ==
    /\ Len(api_log) = 3
    /\ api_log[1].fn = "mute"
    /\ api_log[2].fn = "restore"
    /\ api_log[3].fn = "restore"
    /\ ~api_log[3].raised
    /\ muted_expr_backup = EmptyBackup
    /\ \E ex \in DOMAIN expressions : expressions[ex] = "missing_a"

\* C20: a restore called while the backup holds nothing, a restore before
\* any mute included, raises nothing and changes nothing.
C20_RestoreSafeWhenEmpty ==
    [][(RestoreCalled /\ muted_expr_backup.items = <<>>)
       => /\ ~api_log'[Len(api_log')].raised
          /\ expressions' = expressions
          /\ muted_expr_backup'.items = <<>>]_vars

\* the step is a call of mute_broken_expressions()
MuteCalled ==
    /\ Len(api_log') = Len(api_log) + 1
    /\ api_log'[Len(api_log')].fn = "mute"

\* C21: a mute stores one backup entry per broken expression, holding the
\* text the expression had, and blanks every broken expression, leaving the
\* others alone; a restore on that backup writes the stored text back to
\* every expression of the backup that still exists, creates no node for an
\* entry whose expression is gone, and leaves the backup empty.
C21_MuteRestoreRoundTrip ==
    [][/\ MuteCalled =>
            /\ muted_expr_backup'.defined
            /\ DOMAIN muted_expr_backup'.items
                    = list_broken_expressions(expressions)
            /\ DOMAIN expressions' = DOMAIN expressions
            /\ \A ex \in DOMAIN expressions :
                IF ex \in list_broken_expressions(expressions)
                THEN /\ muted_expr_backup'.items[ex] = expressions[ex]
                     /\ expressions'[ex] = ""
                ELSE expressions'[ex] = expressions[ex]
       /\ (RestoreCalled /\ muted_expr_backup.defined) =>
            /\ DOMAIN expressions' = DOMAIN expressions
            /\ \A ex \in DOMAIN expressions :
                IF ex \in DOMAIN muted_expr_backup.items
                THEN expressions'[ex] = muted_expr_backup.items[ex]
                ELSE expressions'[ex] = expressions[ex]
            /\ muted_expr_backup' = EmptyBackup]_vars

\* C23: a mute keeps, for every expression that an earlier mute blanked and
\* no restore has written back since (it is blank and the backup holds its
\* text), that text in the backup.
C23_BlankedStaysBackedUp ==
    [][MuteCalled =>
        \A ex \in DOMAIN muted_expr_backup.items \cap DOMAIN expressions :
            expressions[ex] = "" =>
                /\ ex \in DOMAIN muted_expr_backup'.items
                /\ muted_expr_backup'.items[ex] = muted_expr_backup.items[ex]]_vars

\* C22: the cancel flag is read only at the top of an iteration.  Pressing
\* Esc changes no status; the call of an item that has started ends with the
\* item 'baked' or 'failed' by the call's outcome alone, whether or not Esc
\* was pressed meanwhile; a cancel seen at item i leaves the items before i
\* as they are; and once the last item is done the function returns
\* 'completed' and changes no status, whatever the flag.
C22_CancelOnlyAtBoundary ==
    [][/\ (~isCancelled /\ isCancelled') =>
            /\ STATUS' = STATUS
            /\ pc' = pc
            /\ calls' = calls
       /\ (pc = "baking" /\ pc' # "baking") =>
            /\ calls'[Len(calls')].ns = namespaces[loop_i]
            /\ STATUS'[namespaces[loop_i]] =
                    (IF calls'[Len(calls')].res = "returned"
                     THEN "baked" ELSE "failed")
       /\ (pc = "boundary" /\ pc' = "idle" /\ result' = "canceled") =>
            \A j \in 1..(loop_i - 1) :
                STATUS'[namespaces[j]] = STATUS[namespaces[j]]
       /\ (pc = "boundary" /\ loop_i > Len(namespaces)
                /\ isCancelled' = isCancelled) =>
            /\ pc' = "idle"
            /\ result' = "completed"
            /\ STATUS' = STATUS]_vars

C22_Witness ==
    /\ Returned
    /\ result = "completed"
    /\ isCancelled
    /\ Len(namespaces) = 2
    /\ Len(calls) = 2
    /\ STATUS[namespaces[1]] = "failed"
    /\ STATUS[namespaces[2]] = "baked"

\* C24: a run launched with the Mute box on records the broken expressions
\* and their texts; the backup stays as it is until the bake function
\* returns; and when it returns in a run with the Restore box on and at least
\* one expression muted, whether the loop completed, had failures or was
\* canceled, the backup is emptied and every muted expression that still
\* exists holds its recorded text again.
C24_RestoreAfterEveryRun ==
    [][/\ (pc # "call" /\ pc' = "call" /\ UI.cb_mute) =>
            /\ muted' = list_broken_expressions(expressions)
            /\ restore_expr' = UI.cb_restore
            /\ DOMAIN muted_expr_backup'.items = muted'
            /\ \A ex \in muted' : muted_expr_backup'.items[ex] = expressions[ex]
       /\ (pc \in {"call", "boundary", "baking"} /\ pc' # "idle") =>
            /\ muted_expr_backup' = muted_expr_backup
            /\ \A ex \in DOMAIN expressions' : expressions'[ex] = expressions[ex]
       /\ (pc \in {"call", "boundary", "baking"} /\ pc' = "idle"
           /\ restore_expr /\ muted # {}) =>
            /\ muted_expr_backup' = EmptyBackup
            /\ \A ex \in muted \cap DOMAIN expressions' :
                expressions'[ex] = muted_expr_backup.items[ex]]_vars

\* C25: a refresh leaves as marked exactly the namespaces that were marked
\* and are in the new cache; it leaves every status on record as it is, and
\* the only entries it adds to the status dict are for namespaces of the new
\* cache that had none.
C25_RefreshFrame ==
    [][OpenBakeUI =>
        /\ MARKED_NS' = MARKED_NS \cap CacheNs(RIGS_CACHE')
        /\ \A ns \in DOMAIN STATUS :
            ns \in DOMAIN STATUS' /\ STATUS'[ns] = STATUS[ns]
        /\ DOMAIN STATUS' = DOMAIN STATUS \cup CacheNs(RIGS_CACHE')]_vars

C25_Witness ==
    /\ pc = "idle"
    /\ selected = {}
    /\ MARKED_NS # {}
    /\ Len(RIGS_CACHE) = 1
    /\ DOMAIN STATUS = {1, 2}
    /\ RIGS_CACHE[1].bind_skeleton_driver = "1"
    /\ STATUS[RIGS_CACHE[1].namespace] = "not"

\* C26: every handler that rebuilds the list (Mark, Unmark, Toggle, the
\* hotkey, Clear marks, a change of a filter widget, the end of a bake run)
\* leaves selected exactly the namespaces that were selected and are rows of
\* the new list, wherever their rows now are and whatever their labels now
\* read.
C26_SelectionByIdentity ==
    [][(\/ MarkSelected
        \/ UnmarkSelected
        \/ ToggleSelected
        \/ HotkeyToggleLastSelected
        \/ ClearAllMarks
        \/ SetFilterText
        \/ ToggleHideBaked
        \/ ToggleShowOnlyMarked
        \/ (pc # "idle" /\ pc' = "idle"))
       => selected' = selected \cap Range(LIST_NS')]_vars

C26_Witness ==
    /\ Returned
    /\ UI.cb_show_only_marked
    /\ UI.tf_filter = <<"(green)">>
    /\ MARKED_NS = {2}
    /\ LIST_NS = <<2>>
    /\ selected = {2}
    /\ STATUS[1] = "failed"
    /\ STATUS[2] = "baked"

\* C27: at the top of an iteration that sees no cancel, whatever the cache
\* holds for the item and whatever was read at launch, the bind driver read
\* made there can give 1, 0 or None; on 1 the item is set 'skipped' and no
\* batch() call is made, on 0 and on None (attribute missing or unreadable)
\* the batch() call is made for the item.
C27_SkipByReread ==
    /\ []((pc = "boundary" /\ loop_i <= Len(namespaces) /\ ~isCancelled)
            => \A bsd \in BindValues : ENABLED BeginItemRead(bsd))
    /\ [][\A bsd \in BindValues :
            BeginItemRead(bsd) =>
                IF bsd = "1"
                THEN /\ STATUS'[namespaces[loop_i]] = "skipped"
                     /\ calls' = calls
                     /\ pc' = "boundary"
                     /\ loop_i' = loop_i + 1
                ELSE /\ calls' = Append(calls, [ns |-> namespaces[loop_i],
                                                res |-> "running"])
                     /\ pc' = "baking"
                     /\ STATUS' = STATUS]_vars

C27_Witness ==
    /\ pc = "baking"
    /\ skip_baked
    /\ Len(namespaces) = 2
    /\ loop_i = 2
    /\ STATUS[namespaces[1]] = "skipped"
    /\ Called(namespaces[2])
    /\ \E k \in DOMAIN RIGS_CACHE :
        /\ RIGS_CACHE[k].namespace = namespaces[1]
        /\ RIGS_CACHE[k].bind_skeleton_driver = "0"
    /\ \E k \in DOMAIN RIGS_CACHE :
        /\ RIGS_CACHE[k].namespace = namespaces[2]
        /\ RIGS_CACHE[k].bind_skeleton_driver = "1"

\* C28: the range a run hands to the bake function is the range the preview
\* label computes from the same widgets, cameras and time slider at the
\* moment Run Bake is pressed.
C28_PreviewIsRunRange ==
    [][(pc = "idle" /\ pc' = "call")
       => frame_range' = compute_preview_range(UI, cameras, playback)]_vars

\* C29: when the window is opened or Refresh Cameras is pressed and some
\* camera has both headIn and tailOut readable, the First menu is set to the
\* camera of least headIn and the Last menu to the camera of greatest tailOut
\* among those (two different cameras when that is how the values lie), in
\* both cases the one listed first among equals; a camera with an unreadable
\* headIn or tailOut is never the one picked.
C29_AutoPick ==
    [][(OpenBakeUI \/ RefreshCameras) =>
        LET ht == {c \in DOMAIN cameras :
                        cameras[c].headIn # <<>> /\ cameras[c].tailOut # <<>>}
            f  == UI'.om_first
            l  == UI'.om_last
        IN  ht # {} =>
                /\ f \in ht
                /\ l \in ht
                /\ \A d \in ht :
                    /\ cameras[f].headIn[1] <= cameras[d].headIn[1]
                    /\ cameras[d].headIn[1] = cameras[f].headIn[1] => f <= d
                    /\ cameras[l].tailOut[1] >= cameras[d].tailOut[1]
                    /\ cameras[d].tailOut[1] = cameras[l].tailOut[1] => l <= d]_vars

C29_Witness ==
    /\ Len(cameras) = 2
    /\ cameras[1] = [headIn |-> <<0>>, tailOut |-> <<0>>]
    /\ cameras[2] = [headIn |-> <<0>>, tailOut |-> <<1>>]
    /\ UI.om_first = 1
    /\ UI.om_last = 2
    /\ DOMAIN STATUS \ CacheNs(RIGS_CACHE) # {}

\* the position of ns in the list handed to the bake function
C30_Index(ns) == CHOOSE j \in DOMAIN namespaces : namespaces[j] = ns

\* C30: when a run has returned, the status of every namespace of its id
\* list is the outcome this run gave it, whatever status (seeded or left by
\* an earlier run, 'baked' included) it had before: 'skipped' if the launch
\* filter removed it or the loop skipped it, 'canceled' if the cancel was seen
\* at or before it, else 'baked' or 'failed' by its batch() call.
C30_RunOutcomeOverwrites ==
    Returned =>
        \A ns \in Range(bake_namespaces) :
            STATUS[ns] =
                IF ns \notin Range(namespaces) THEN "skipped"
                ELSE IF result = "canceled" /\ C30_Index(ns) >= loop_i
                THEN "canceled"
                ELSE IF ~Called(ns) THEN "skipped"
                ELSE IF CallRes(ns) = "returned" THEN "baked"
                ELSE "failed"

C30_Witness ==
    /\ Returned
    /\ result = "canceled"
    /\ ~skip_baked
    /\ calls = <<>>
    /\ \E k \in DOMAIN RIGS_CACHE :
        /\ RIGS_CACHE[k].bind_skeleton_driver = "1"
        /\ RIGS_CACHE[k].namespace \in Range(namespaces)
        /\ STATUS[RIGS_CACHE[k].namespace] = "canceled"
    /\ \E ns \in DOMAIN STATUS \ Range(bake_namespaces) : STATUS[ns] = "failed"

\* C31: the id list of a run is sorted(_MARKED_NS) as it is when Run Bake is
\* pressed; while the run is under way no step changes the list, whatever
\* Mark, Unmark, Toggle or Clear marks handler runs between two items; the
\* loop hands every item it reaches without a cancel to the skip test or to
\* batch(), marked or not by then; and no step of the run changes the marked
\* set.
C31_SnapshotAtLaunch ==
    /\ [][(pc = "idle" /\ pc' = "call") =>
            /\ bake_namespaces' = sorted(MARKED_NS)
            /\ Range(namespaces') \subseteq MARKED_NS]_vars
    /\ [][pc # "idle" =>
            /\ namespaces' = namespaces
            /\ bake_namespaces' = bake_namespaces]_vars
    /\ [][(pc = "boundary" /\ loop_i' # loop_i) =>
            /\ loop_i' = loop_i + 1
            /\ STATUS'[namespaces[loop_i]] = "skipped"]_vars
    /\ [][(pc = "boundary" /\ pc' = "baking") =>
            calls' = Append(calls, [ns |-> namespaces[loop_i],
                                    res |-> "running"])]_vars
    /\ [][(\/ RunBakeMarked
           \/ EnterBake
           \/ RequestCancel
           \/ BeginItem
           \/ FinishItem
           \/ EndLoop) => MARKED_NS' = MARKED_NS]_vars

C31_Witness ==
    /\ pc = "baking"
    /\ namespaces = <<1, 2>>
    /\ loop_i = 2
    /\ MARKED_NS = {}
    /\ STATUS[1] = "baked"
    /\ calls[Len(calls)].ns = 2

\* a sequence of records with an ns field whose namespaces strictly ascend
C32_Ascending(log) ==
    \A j, k \in DOMAIN log : j < k => log[j].ns < log[k].ns

\* the _status_set calls that the loop of the current run made
C32_LoopLog == SelectSeq(status_log, LAMBDA e : e.ns \in Range(namespaces))

\* C32: in a run launched from a non-empty _MARKED_NS the list handed to the
\* bake function strictly ascends by namespace (whatever the order of the
\* inventory), the loop takes its items in that order one at a time: the
\* batch() calls and the loop's status writes ascend by namespace and cover
\* exactly the items before the loop index (and the one being baked); no
\* namespace has two batch() calls or two status writes in the run, and only
\* the last batch() call can be running, and only while pc = "baking"
C32_OneAtATimeInOrder ==
    (MARKED_NS # {} /\ (pc \in {"call", "boundary", "baking"}
                        \/ result # "none")) =>
        /\ bake_namespaces = sorted(MARKED_NS)
        /\ \A j, k \in DOMAIN namespaces : j < k => namespaces[j] < namespaces[k]
        /\ \A j, k \in DOMAIN status_log :
                j # k => status_log[j].ns # status_log[k].ns
        /\ pc # "call" =>
            /\ C32_Ascending(calls)
            /\ C32_Ascending(C32_LoopLog)
            /\ \A j \in DOMAIN calls :
                    calls[j].res = "running" => (j = Len(calls) /\ pc = "baking")
            /\ pc = "baking" => calls[Len(calls)] =
                                    [ns |-> namespaces[loop_i], res |-> "running"]
            /\ pc \in {"boundary", "baking"} =>
                    {calls[j].ns : j \in DOMAIN calls}
                        \cup {C32_LoopLog[j].ns : j \in DOMAIN C32_LoopLog}
                    = {namespaces[j] : j \in 1..(IF pc = "baking" THEN loop_i
                                                 ELSE loop_i - 1)}

\* a run over both marked rigs of an inventory listed <<2, 1>> ended: batch()
\* was called for 1, then for 2, and each got one status write
C32_Witness ==
    /\ pc = "idle" /\ result = "completed" /\ MARKED_NS = {1, 2}
    /\ RIGS_CACHE[1].namespace > RIGS_CACHE[2].namespace
    /\ Len(calls) = 2 /\ calls[1].ns = 1 /\ calls[2].ns = 2
    /\ Len(status_log) = 2 /\ status_log[1].ns = 1 /\ status_log[2].ns = 2

\* C33: in a run launched from _MARKED_NS with the Skip box on, every marked
\* namespace whose bind driver read 1 at launch is 'skipped' from the launch
\* on (so before the loop starts), is not in the list handed to the bake
\* function, gets no batch() call, and its only status write of the run is
\* the 'skipped' of the launch, made before any write of the loop; this
\* stays so when the loop is canceled, also at its first item
C33_SkippedAtLaunchStays ==
    (MARKED_NS # {} /\ skip_baked /\ (pc # "idle" \/ result # "none")) =>
        \A ns \in bind_on_at_launch :
            /\ STATUS[ns] = "skipped"
            /\ ns \notin Range(namespaces)
            /\ pc # "call" => \A j \in DOMAIN calls : calls[j].ns # ns
            /\ \A j \in DOMAIN status_log :
                    status_log[j].ns = ns => status_log[j].state = "skipped"
            /\ \E j \in DOMAIN status_log :
                    /\ status_log[j].ns = ns
                    /\ \A k \in 1..(j - 1) : status_log[k].ns \in bind_on_at_launch

\* a run with the Skip box on was canceled at its first item: the item of
\* the loop is 'canceled', the rig removed at launch is still 'skipped'
C33_Witness ==
    /\ pc = "idle" /\ result = "canceled" /\ loop_i = 1
    /\ MARKED_NS # {} /\ skip_baked
    /\ bind_on_at_launch # {}
    /\ namespaces # <<>>
    /\ \A k \in DOMAIN namespaces : STATUS[namespaces[k]] = "canceled"
    /\ \A ns \in bind_on_at_launch : STATUS[ns] = "skipped"

====
